---- MODULE Spec2Model ----
(***************************************************************************)
(* A model of src/main.py: the output sanitizer clean_html_output, which   *)
(* strips markdown code-fence markers from the text a generation service   *)
(* returns, and the orchestration around it (process_pdf_with_gemini and   *)
(* main).                                                                  *)
(*                                                                         *)
(* A string is a sequence of one-character strings.  The sanitizer works   *)
(* on "cells": a character together with the index it had in the input,    *)
(* so that what a substitution deleted and what it kept can be read off    *)
(* the result.  The regular expressions look at the characters only.       *)
(***************************************************************************)
EXTENDS Integers, Sequences, FiniteSets

VARIABLES
    text,          \* sanitizer run: the raw text handed to clean_html_output
    marks,         \* sanitizer run: the cells of the result of the first call
    out,           \* sanitizer run: the result of the first call
    out2,          \* sanitizer run: the result of calling it on its own result
    phase,         \* sanitizer run: "raw", "clean", "twice" ("off": no run)
    pc,            \* program run: the next step ("off": no run)
    entry,         \* "main": the command line; "call": the function, imported
    path_exists,   \* os.path.exists(pdf_path)
    extension,     \* Path(pdf_path).suffix
    readable,      \* open(pdf_path, "rb") succeeds
    output_arg,    \* args.output, or the caller's output_path
    prompt_arg,    \* args.prompt, or the caller's prompt
    enable_thinking,
    output_path,   \* the output_path process_pdf_with_gemini runs with
    request,       \* what the last generate_content call was given
    calls,         \* calls of client.models.generate_content so far
    response_text, \* response.text
    usage,         \* the response carries usage_metadata
    cleaned_html,
    file,          \* the content of the destination file
    written,       \* every content written to the destination file, in order
    returned_text, \* the text of the CleanedResponse returned
    raised,        \* the exception process_pdf_with_gemini raised, or "none"
    message,       \* what the exception's message names
    printed,       \* the lines printed, in order
    status         \* "running", "returned" (normally), "propagated" (exception)

sanvars == <<text, marks, out, out2, phase>>

runvars ==
    <<pc, entry, path_exists, extension, readable, output_arg, prompt_arg,
      enable_thinking, output_path, request, calls, response_text, usage,
      cleaned_html, file, written, returned_text, raised, message, printed,
      status>>

vars == <<sanvars, runvars>>

----------------------------------------------------------------------------
\* Bounds of the model.

\* The longest input of the sanitizer run, in pieces.
MaxPieces == 4

\* The longest text the generation service returns in a program run, in pieces.
MaxResponsePieces == 2

----------------------------------------------------------------------------
\* Characters and literals.

\* The backtick, which a TLA+ string cannot hold, is written ~ throughout.
Tick == "~"
Fence == <<Tick, Tick, Tick>>
LangTag == <<"h", "t", "m", "l">>
FenceHtml == Fence \o LangTag
OpenTag == <<"<", "h", "t", "m", "l", ">">>
CloseTag == <<"<", "/", "h", "t", "m", "l", ">">>
UpperOpenTag == <<"<", "H", "T", "M", "L", ">">>

\* \s of the re module, on the characters of the model.
IsSpace(c) == c \in {" ", "\n", "\t"}

\* Case folding of re.IGNORECASE, on the characters of the model.
Lower(c) ==
    CASE c = "H" -> "h"
      [] c = "T" -> "t"
      [] c = "M" -> "m"
      [] c = "L" -> "l"
      [] OTHER -> c

Cells(s) == [i \in 1..Len(s) |-> [ch |-> s[i], at |-> i]]
Chars(cs) == [i \in 1..Len(cs) |-> cs[i].ch]
Origins(cs) == {cs[i].at : i \in 1..Len(cs)}

\* The literal lit matches the cells cs at index i (ic: ignoring case).
HasAt(cs, i, lit, ic) ==
    /\ i >= 1
    /\ i + Len(lit) - 1 <= Len(cs)
    /\ \A k \in 1..Len(lit) :
          (IF ic THEN Lower(cs[i + k - 1].ch) ELSE cs[i + k - 1].ch) = lit[k]

\* Where a greedy \s* that starts at index i stops: the first index at or
\* after i that holds no whitespace (Len(cs) + 1 when there is none).
RECURSIVE SkipSpace(_, _)
SkipSpace(cs, i) ==
    IF i <= Len(cs) /\ IsSpace(cs[i].ch) THEN SkipSpace(cs, i + 1) ELSE i

\* The anchor $ without re.MULTILINE at index i: the end of the string, or
\* just before a newline that is the last character.
AtDollar(cs, i) ==
    \/ i = Len(cs) + 1
    \/ i = Len(cs) /\ cs[i].ch = "\n"

\* The replacement text lit, its cells placed where the matched tag stood.
Replacement(cs, i, lit) ==
    [k \in 1..Len(lit) |-> [ch |-> lit[k], at |-> cs[i + k - 1].at]]

----------------------------------------------------------------------------
\* clean_html_output, one definition per substitution.

\* StripLeadingHtmlFence with the \s* left out of the pattern.
StripLeadingHtmlFenceOnly(cs) ==
    IF HasAt(cs, 1, FenceHtml, FALSE)
    THEN SubSeq(cs, Len(FenceHtml) + 1, Len(cs))
    ELSE cs

\* re.sub(r'^~~~html\s*', '', text)
StripLeadingHtmlFence(cs) ==
    IF HasAt(cs, 1, FenceHtml, FALSE)
    THEN SubSeq(cs, SkipSpace(cs, Len(FenceHtml) + 1), Len(cs))
    ELSE cs

\* StripLeadingFence with a pattern that takes any run of backticks.
RECURSIVE SkipTicks(_, _)
SkipTicks(cs, i) ==
    IF i <= Len(cs) /\ cs[i].ch = Tick THEN SkipTicks(cs, i + 1) ELSE i

StripLeadingTicks(cs) ==
    IF HasAt(cs, 1, <<Tick>>, FALSE)
    THEN SubSeq(cs, SkipSpace(cs, SkipTicks(cs, 1)), Len(cs))
    ELSE cs

\* re.sub(r'^~~~\s*', '', text)
StripLeadingFence(cs) ==
    IF HasAt(cs, 1, Fence, FALSE)
    THEN SubSeq(cs, SkipSpace(cs, Len(Fence) + 1), Len(cs))
    ELSE cs

\* re.sub(r'\s*~~~$', '', text): every leftmost non-overlapping match, from i.
RECURSIVE SubTrailingFence(_, _)
SubTrailingFence(cs, i) ==
    IF i > Len(cs) THEN <<>>
    ELSE LET j == SkipSpace(cs, i)
         IN  IF HasAt(cs, j, Fence, FALSE) /\ AtDollar(cs, j + Len(Fence))
             THEN SubTrailingFence(cs, j + Len(Fence))
             ELSE <<cs[i]>> \o SubTrailingFence(cs, i + 1)

StripTrailingFence(cs) == SubTrailingFence(cs, 1)

\* re.sub(r'<html>\s*~~~html', '<html>', text, flags=re.IGNORECASE), from i.
RECURSIVE SubOpenTagFence(_, _)
SubOpenTagFence(cs, i) ==
    IF i > Len(cs) THEN <<>>
    ELSE LET j == SkipSpace(cs, i + Len(OpenTag))
         IN  IF HasAt(cs, i, OpenTag, TRUE) /\ HasAt(cs, j, FenceHtml, TRUE)
             THEN Replacement(cs, i, OpenTag)
                      \o SubOpenTagFence(cs, j + Len(FenceHtml))
             ELSE <<cs[i]>> \o SubOpenTagFence(cs, i + 1)

\* CollapseOpenTagFence with flags=re.IGNORECASE left out.
RECURSIVE SubOpenTagFenceCased(_, _)
SubOpenTagFenceCased(cs, i) ==
    IF i > Len(cs) THEN <<>>
    ELSE LET j == SkipSpace(cs, i + Len(OpenTag))
         IN  IF HasAt(cs, i, OpenTag, FALSE) /\ HasAt(cs, j, FenceHtml, FALSE)
             THEN Replacement(cs, i, OpenTag)
                      \o SubOpenTagFenceCased(cs, j + Len(FenceHtml))
             ELSE <<cs[i]>> \o SubOpenTagFenceCased(cs, i + 1)

CollapseOpenTagFenceCased(cs) == SubOpenTagFenceCased(cs, 1)

CollapseOpenTagFence(cs) == SubOpenTagFence(cs, 1)

\* re.sub(r'~~~\s*</html>', '</html>', text, flags=re.IGNORECASE), from i.
RECURSIVE SubFenceCloseTag(_, _)
SubFenceCloseTag(cs, i) ==
    IF i > Len(cs) THEN <<>>
    ELSE LET j == SkipSpace(cs, i + Len(Fence))
         IN  IF HasAt(cs, i, Fence, TRUE) /\ HasAt(cs, j, CloseTag, TRUE)
             THEN Replacement(cs, j, CloseTag)
                      \o SubFenceCloseTag(cs, j + Len(CloseTag))
             ELSE <<cs[i]>> \o SubFenceCloseTag(cs, i + 1)

CollapseFenceCloseTag(cs) == SubFenceCloseTag(cs, 1)

\* The five substitutions in the order of the code, on cells.
CleanCells(cs) ==
    CollapseFenceCloseTag(
        CollapseOpenTagFence(
            StripTrailingFence(
                StripLeadingFence(
                    StripLeadingHtmlFence(cs)))))

clean_html_output(s) == Chars(CleanCells(Cells(s)))

----------------------------------------------------------------------------
\* The inputs of the sanitizer run.

Pieces ==
    { Fence, FenceHtml, LangTag, OpenTag, UpperOpenTag, CloseTag,
      <<"\n">>, <<" ">>, <<"x">>, <<Tick>> }

RECURSIVE Flatten(_)
Flatten(ps) == IF ps = <<>> THEN <<>> ELSE Head(ps) \o Flatten(Tail(ps))

Generated ==
    { Flatten(ps) : ps \in UNION { [1..n -> Pieces] : n \in 0..MaxPieces } }

\* "~~~html\n<p>x</p>\n~~~"
FencedParagraph ==
    FenceHtml \o <<"\n", "<", "p", ">", "x", "<", "/", "p", ">", "\n">> \o Fence

\* "<p>x</p>"
Paragraph == <<"<", "p", ">", "x", "<", "/", "p", ">">>

\* "<body>ok</body>"
Body ==
    <<"<", "b", "o", "d", "y", ">", "o", "k",
      "<", "/", "b", "o", "d", "y", ">">>

\* "<html>\n~~~html\n<body>ok</body>\n~~~\n</html>"
FencedDocument ==
    OpenTag \o <<"\n">> \o FenceHtml \o <<"\n">> \o Body
        \o <<"\n">> \o Fence \o <<"\n">> \o CloseTag

\* "<html>\n<body>ok</body>\n</html>"
Document == OpenTag \o <<"\n">> \o Body \o <<"\n">> \o CloseTag

Examples == { FencedParagraph, FencedDocument }

Inputs == Generated \cup Examples

\* The texts the generation service may return in a program run.
Responses ==
    { Flatten(ps) :
        ps \in UNION { [1..n -> Pieces] : n \in 0..MaxResponsePieces } }
        \cup Examples

----------------------------------------------------------------------------
\* The sanitizer run: the function applied to an input, then to its result.

\* No program run: the state of the program's variables in a sanitizer run.
RunOff ==
    /\ pc = "off"
    /\ entry = "call"
    /\ path_exists = FALSE
    /\ extension = ""
    /\ readable = FALSE
    /\ output_arg = "none"
    /\ prompt_arg = "none"
    /\ enable_thinking = FALSE
    /\ output_path = "none"
    /\ request = "none"
    /\ calls = 0
    /\ response_text = <<>>
    /\ usage = FALSE
    /\ cleaned_html = <<>>
    /\ file = <<>>
    /\ written = <<>>
    /\ returned_text = <<>>
    /\ raised = "none"
    /\ message = "none"
    /\ printed = <<>>
    /\ status = "running"

SanInit ==
    /\ text \in Inputs
    /\ marks = <<>>
    /\ out = <<>>
    /\ out2 = <<>>
    /\ phase = "raw"
    /\ RunOff

Sanitize ==
    /\ phase = "raw"
    /\ marks' = CleanCells(Cells(text))
    /\ out' = clean_html_output(text)
    /\ phase' = "clean"
    /\ UNCHANGED <<text, out2, runvars>>

Resanitize ==
    /\ phase = "clean"
    /\ out2' = clean_html_output(out)
    /\ phase' = "twice"
    /\ UNCHANGED <<text, marks, out, runvars>>

SanNext == Sanitize \/ Resanitize

SanSpec == SanInit /\ [][SanNext]_vars

----------------------------------------------------------------------------
\* The program run: main, or process_pdf_with_gemini called directly.

Extensions == {".pdf", ".PDF", ".html", ""}

\* str.lower() on the suffixes of the model.
LowerExt(e) == IF e = ".PDF" THEN ".pdf" ELSE e

\* What the destination file holds before the run.
StaleHtml == <<"o", "l", "d">>

\* The default prompt of process_pdf_with_gemini, when prompt is None.
DefaultPrompt == "default"

Init ==
    /\ pc = "start"
    /\ entry \in {"main", "call"}
    /\ path_exists \in BOOLEAN
    /\ extension \in Extensions
    /\ readable \in BOOLEAN
    /\ output_arg \in {"none", "given"}
    /\ prompt_arg \in {"none", "custom"}
    \* --thinking is store_true with default True: always on from main.
    /\ enable_thinking \in (IF entry = "main" THEN {TRUE} ELSE BOOLEAN)
    /\ output_path = "none"
    /\ request = "none"
    /\ calls = 0
    /\ response_text = <<>>
    /\ usage = FALSE
    /\ cleaned_html = <<>>
    /\ file = StaleHtml
    /\ written = <<>>
    /\ returned_text = <<>>
    /\ raised = "none"
    /\ message = "none"
    /\ printed = <<>>
    /\ status = "running"
    /\ text = <<>> /\ marks = <<>> /\ out = <<>> /\ out2 = <<>>
    /\ phase = "off"

\* main, up to the call: the output path is derived from the source path
\* when none is given.  A direct caller passes its own, which may be None.
ResolveOutputPath ==
    /\ pc = "start"
    /\ output_path' =
          IF entry = "main" /\ output_arg = "none" THEN "derived"
          ELSE output_arg
    /\ pc' = "validate"
    /\ UNCHANGED <<entry, path_exists, extension, readable, output_arg,
                   prompt_arg, enable_thinking, request, calls, response_text,
                   usage, cleaned_html, file, written, returned_text, raised,
                   message, printed, status, sanvars>>

\* Validate with the two checks in the other order.
ValidateExtensionFirst ==
    /\ pc = "validate"
    /\ IF LowerExt(extension) # ".pdf"
       THEN /\ raised' = "ValueError"
            /\ message' = LowerExt(extension)
            /\ pc' = "raised"
       ELSE IF ~path_exists
       THEN /\ raised' = "FileNotFoundError"
            /\ message' = "path"
            /\ pc' = "raised"
       ELSE /\ pc' = "read"
            /\ UNCHANGED <<raised, message>>
    /\ UNCHANGED <<entry, path_exists, extension, readable, output_arg,
                   prompt_arg, enable_thinking, output_path, request, calls,
                   response_text, usage, cleaned_html, file, written,
                   returned_text, printed, status, sanvars>>

\* process_pdf_with_gemini: the path exists and its suffix, lowered, is .pdf.
Validate ==
    /\ pc = "validate"
    /\ IF ~path_exists
       THEN /\ raised' = "FileNotFoundError"
            /\ message' = "path"
            /\ pc' = "raised"
       ELSE IF LowerExt(extension) # ".pdf"
       THEN /\ raised' = "ValueError"
            /\ message' = LowerExt(extension)
            /\ pc' = "raised"
       ELSE /\ pc' = "read"
            /\ UNCHANGED <<raised, message>>
    /\ UNCHANGED <<entry, path_exists, extension, readable, output_arg,
                   prompt_arg, enable_thinking, output_path, request, calls,
                   response_text, usage, cleaned_html, file, written,
                   returned_text, printed, status, sanvars>>

\* process_pdf_with_gemini: the file is read.
ReadPdf ==
    /\ pc = "read"
    /\ IF readable
       THEN /\ pc' = "generate"
            /\ UNCHANGED <<raised, message>>
       ELSE /\ raised' = "OSError"
            /\ message' = "path"
            /\ pc' = "raised"
    /\ UNCHANGED <<entry, path_exists, extension, readable, output_arg,
                   prompt_arg, enable_thinking, output_path, request, calls,
                   response_text, usage, cleaned_html, file, written,
                   returned_text, printed, status, sanvars>>

\* process_pdf_with_gemini: the request is built and the service called once;
\* the call returns a response or raises.
GenerateContent ==
    /\ pc = "generate"
    /\ calls' = calls + 1
    /\ request' =
          [ prompt |-> IF prompt_arg = "none" THEN DefaultPrompt ELSE prompt_arg,
            thinking |-> enable_thinking ]
    /\ \/ /\ response_text' \in Responses
          /\ usage' \in BOOLEAN
          /\ pc' = "clean"
          /\ UNCHANGED <<raised, message>>
       \/ /\ raised' = "ServiceError"
          /\ message' = "service"
          /\ pc' = "raised"
          /\ UNCHANGED <<response_text, usage>>
    /\ UNCHANGED <<entry, path_exists, extension, readable, output_arg,
                   prompt_arg, enable_thinking, output_path, cleaned_html,
                   file, written, returned_text, printed, status, sanvars>>

\* CleanAndSave writing response.text instead of cleaned_html.
CleanAndSaveRaw ==
    /\ pc = "clean"
    /\ cleaned_html' = clean_html_output(response_text)
    /\ IF output_path = "none"
       THEN /\ pc' = "return"
            /\ UNCHANGED <<file, written, printed, raised, message>>
       ELSE \/ /\ file' = response_text
               /\ written' = Append(written, response_text)
               /\ printed' = Append(printed, "HTML output saved to")
               /\ pc' = "return"
               /\ UNCHANGED <<raised, message>>
            \/ /\ file' \in {file, <<>>}
               /\ raised' = "OSError"
               /\ message' = "output"
               /\ pc' = "raised"
               /\ UNCHANGED <<written, printed>>
    /\ UNCHANGED <<entry, path_exists, extension, readable, output_arg,
                   prompt_arg, enable_thinking, output_path, request, calls,
                   response_text, usage, returned_text, status, sanvars>>

\* process_pdf_with_gemini: the text is sanitized and, when there is an
\* output path, written to it.  open() may fail, which leaves the file as it
\* was; write() may fail after open() has truncated the file.
CleanAndSave ==
    /\ pc = "clean"
    /\ cleaned_html' = clean_html_output(response_text)
    /\ IF output_path = "none"
       THEN /\ pc' = "return"
            /\ UNCHANGED <<file, written, printed, raised, message>>
       ELSE \/ /\ file' = cleaned_html'
               /\ written' = Append(written, cleaned_html')
               /\ printed' = Append(printed, "HTML output saved to")
               /\ pc' = "return"
               /\ UNCHANGED <<raised, message>>
            \/ /\ file' \in {file, <<>>}
               /\ raised' = "OSError"
               /\ message' = "output"
               /\ pc' = "raised"
               /\ UNCHANGED <<written, printed>>
    /\ UNCHANGED <<entry, path_exists, extension, readable, output_arg,
                   prompt_arg, enable_thinking, output_path, request, calls,
                   response_text, usage, returned_text, status, sanvars>>

\* process_pdf_with_gemini: the CleanedResponse is returned.
ReturnResponse ==
    /\ pc = "return"
    /\ returned_text' = cleaned_html
    /\ pc' = IF entry = "main" THEN "report" ELSE "done"
    /\ status' = IF entry = "main" THEN status ELSE "returned"
    /\ UNCHANGED <<entry, path_exists, extension, readable, output_arg,
                   prompt_arg, enable_thinking, output_path, request, calls,
                   response_text, usage, cleaned_html, file, written, raised,
                   message, printed, sanvars>>

\* main, after the call returned: the confirmation and the token usage.
MainReport ==
    /\ pc = "report"
    /\ printed' =
          printed \o <<"CONVERSION COMPLETE", "HTML saved to">>
              \o (IF ~enable_thinking THEN <<>>
                  ELSE IF usage
                  THEN <<"Thinking tokens used", "Total tokens used">>
                  ELSE <<"Token usage information not available">>)
    /\ pc' = "done"
    /\ status' = "returned"
    /\ UNCHANGED <<entry, path_exists, extension, readable, output_arg,
                   prompt_arg, enable_thinking, output_path, request, calls,
                   response_text, usage, cleaned_html, file, written,
                   returned_text, raised, message, sanvars>>

\* MainExcept with the confirmation printed after the handler, not in the try.
MainExceptThenConfirm ==
    /\ pc = "raised"
    /\ entry = "main"
    /\ printed' =
          printed \o <<"Error processing PDF", "CONVERSION COMPLETE",
                       "HTML saved to">>
    /\ pc' = "done"
    /\ status' = "returned"
    /\ UNCHANGED <<entry, path_exists, extension, readable, output_arg,
                   prompt_arg, enable_thinking, output_path, request, calls,
                   response_text, usage, cleaned_html, file, written,
                   returned_text, raised, message, sanvars>>

\* main, except Exception: the error is printed and main returns.
MainExcept ==
    /\ pc = "raised"
    /\ entry = "main"
    /\ printed' = Append(printed, "Error processing PDF")
    /\ pc' = "done"
    /\ status' = "returned"
    /\ UNCHANGED <<entry, path_exists, extension, readable, output_arg,
                   prompt_arg, enable_thinking, output_path, request, calls,
                   response_text, usage, cleaned_html, file, written,
                   returned_text, raised, message, sanvars>>

\* A direct call: the exception leaves process_pdf_with_gemini.
Propagate ==
    /\ pc = "raised"
    /\ entry = "call"
    /\ pc' = "done"
    /\ status' = "propagated"
    /\ UNCHANGED <<entry, path_exists, extension, readable, output_arg,
                   prompt_arg, enable_thinking, output_path, request, calls,
                   response_text, usage, cleaned_html, file, written,
                   returned_text, raised, message, printed, sanvars>>

Next ==
    \/ ResolveOutputPath
    \/ Validate
    \/ ReadPdf
    \/ GenerateContent
    \/ CleanAndSave
    \/ ReturnResponse
    \/ MainReport
    \/ MainExcept
    \/ Propagate

Spec == Init /\ [][Next]_vars

----------------------------------------------------------------------------
\* Vocabulary of the sanitizer's properties.

StartsWith(s, lit) == Len(lit) <= Len(s) /\ SubSeq(s, 1, Len(lit)) = lit
EndsWith(s, lit) ==
    Len(lit) <= Len(s) /\ SubSeq(s, Len(s) - Len(lit) + 1, Len(s)) = lit
OccursAt(s, i, lit) ==
    i >= 1 /\ i + Len(lit) - 1 <= Len(s) /\ SubSeq(s, i, i + Len(lit) - 1) = lit
ContainsFence(s) == \E i \in 1..Len(s) : OccursAt(s, i, Fence)

\* a is b with some characters deleted.
RECURSIVE IsSubsequence(_, _)
IsSubsequence(a, b) ==
    IF a = <<>> THEN TRUE
    ELSE IF b = <<>> THEN FALSE
    ELSE IF Head(a) = Head(b) THEN IsSubsequence(Tail(a), Tail(b))
    ELSE IsSubsequence(a, Tail(b))

\* The first index of the whitespace run that ends just before index i.
RECURSIVE SpaceRunStart(_, _)
SpaceRunStart(cs, i) ==
    IF i > 1 /\ IsSpace(cs[i - 1].ch) THEN SpaceRunStart(cs, i - 1) ELSE i

\* The result cs holds, side by side and in order, the input's characters
\* i .. i + n - 1.
KeptRun(cs, i, n) ==
    \E p \in 1..Len(cs) :
        /\ p + n - 1 <= Len(cs)
        /\ \A k \in 0..(n - 1) : cs[p + k].at = i + k

\* None of the input's characters i .. j is in the result cs.
DeletedRun(cs, i, j) == \A k \in i..j : k \notin Origins(cs)

\* In the input s: an opening tag at i, whitespace, a fence tagged html.
OpenPairAt(s, i) ==
    LET cs == Cells(s)
    IN  /\ HasAt(cs, i, OpenTag, TRUE)
        /\ HasAt(cs, SkipSpace(cs, i + Len(OpenTag)), FenceHtml, TRUE)

\* In the input s, the three backticks at i are not part of a longer run of
\* backticks.
AloneAt(s, i) ==
    /\ OccursAt(s, i, Fence)
    /\ i > 1 => s[i - 1] # Tick
    /\ i + Len(Fence) <= Len(s) => s[i + Len(Fence)] # Tick

\* In the input s: a fence at i, whitespace, a closing tag.
ClosePairAt(s, i) ==
    LET cs == Cells(s)
    IN  /\ AloneAt(s, i)
        /\ HasAt(cs, SkipSpace(cs, i + Len(Fence)), CloseTag, TRUE)

\* In the input s, the fence at i has a structural tag, opening or closing,
\* next to it on either side, whitespace apart.
NextToTag(s, i) ==
    LET cs == Cells(s)
        after == SkipSpace(cs, i + Len(Fence))
        before == SpaceRunStart(cs, i)
    IN  \/ HasAt(cs, after, OpenTag, TRUE)
        \/ HasAt(cs, after, CloseTag, TRUE)
        \/ HasAt(cs, before - Len(OpenTag), OpenTag, TRUE)
        \/ HasAt(cs, before - Len(CloseTag), CloseTag, TRUE)

\* In the input s, a fence at i that is neither at the very start nor at
\* the very end of the string and has no structural tag next to it.
MidFenceAt(s, i) ==
    /\ AloneAt(s, i)
    /\ i > 1
    /\ i + Len(Fence) - 1 < Len(s)
    /\ ~NextToTag(s, i)

----------------------------------------------------------------------------
\* Properties of the sanitizer, checked under SanSpec.

\* C1: when the raw text begins with a fence marker the sanitized text does
\* not begin with one, and when the raw text ends with a fence marker the
\* sanitized text does not end with one.
C1_NoBoundaryFence ==
    phase # "raw" =>
        /\ StartsWith(text, Fence) => ~StartsWith(out, Fence)
        /\ EndsWith(text, Fence) => ~EndsWith(out, Fence)

\* C2: clean_html_output is idempotent: applied to its own result it
\* returns that result.
C2_Idempotent == phase = "twice" => out2 = out

\* C3: clean_html_output returns unchanged every string that holds no fence
\* marker, the empty string included.
C3_IdentityWithoutFence ==
    (phase # "raw" /\ ~ContainsFence(text)) => out = text

C3_Witness ==
    /\ phase = "clean"
    /\ ~ContainsFence(text)
    /\ Len(text) >= 3
    /\ text[1] = Tick
    /\ IsSpace(text[Len(text)])
    /\ out = text

\* The shape of C4: a fence tagged html, a newline, a body that holds no
\* fence and no whitespace at either edge, a newline, a fence.
FencedBody(s) ==
    /\ Len(s) >= Len(FenceHtml) + Len(Fence) + 2
    /\ StartsWith(s, FenceHtml \o <<"\n">>)
    /\ EndsWith(s, <<"\n">> \o Fence)
    /\ LET body == SubSeq(s, Len(FenceHtml) + 2, Len(s) - Len(Fence) - 1)
       IN  /\ ~ContainsFence(body)
           /\ body # <<>> => ~IsSpace(body[1]) /\ ~IsSpace(body[Len(body)])

BodyOf(s) == SubSeq(s, Len(FenceHtml) + 2, Len(s) - Len(Fence) - 1)

\* C4, as stated: for a fence tagged html, a newline, a body, a newline and
\* a closing fence, the result is the body followed by one newline;
\* "~~~html\n<p>x</p>\n~~~" gives "<p>x</p>\n".
C4_BodyThenNewline ==
    (phase # "raw" /\ FencedBody(text)) => out = BodyOf(text) \o <<"\n">>

\* C4, amended: for that input the result is the body alone, the newline
\* before the closing fence removed with the fence;
\* "~~~html\n<p>x</p>\n~~~" gives "<p>x</p>".
C4_BodyAlone ==
    /\ (phase # "raw" /\ FencedBody(text)) => out = BodyOf(text)
    /\ (phase # "raw" /\ text = FencedParagraph) => out = Paragraph

C4_Witness ==
    phase = "clean" /\ text = FencedParagraph /\ FencedBody(text)
        /\ out = Paragraph

C6_MidFencesKept ==
    phase # "raw" =>
        \A i \in 1..Len(text) :
            MidFenceAt(text, i) => KeptRun(marks, i, Len(Fence))

\* C7: the result is the input with characters deleted and nothing else
\* changed: a subsequence of the input.
C7_OutputIsSubsequence == phase # "raw" => IsSubsequence(out, text)

----------------------------------------------------------------------------
\* Properties of the program run, checked under Spec.

Printed(line) == \E k \in 1..Len(printed) : printed[k] = line

\* The validation has run.
Validated == pc \notin {"off", "start", "validate"}

NothingSent == calls = 0 /\ request = "none"
NothingWritten == written = <<>> /\ file = StaleHtml

\* C8: a path that does not exist raises FileNotFoundError, an existing path
\* whose suffix is not .pdf raises ValueError naming the suffix, and in both
\* cases the service is never called and no file is written.
C8_InvalidPathRejectedBeforeCall ==
    Validated =>
        /\ ~path_exists =>
              raised = "FileNotFoundError" /\ NothingSent /\ NothingWritten
        /\ (path_exists /\ LowerExt(extension) # ".pdf") =>
              /\ raised = "ValueError"
              /\ message = LowerExt(extension)
              /\ NothingSent
              /\ NothingWritten

C8_Witness ==
    /\ pc = "done"
    /\ path_exists
    /\ extension = ".html"
    /\ raised = "ValueError"
    /\ message = ".html"
    /\ calls = 0

\* C9: in a run that returns, the service was called exactly once, the
\* file, when there is an output path, was written exactly once and holds
\* clean_html_output(response.text), the returned text is that same text,
\* and nothing else is ever written.
C9_SanitizedBeforeSavedAndReturned ==
    /\ Len(written) <= 1
    /\ written # <<>> =>
          /\ calls = 1
          /\ output_path # "none"
          /\ written[1] = clean_html_output(response_text)
          /\ file = written[1]
    /\ (pc \in {"report", "done"} /\ raised = "none") =>
          /\ calls = 1
          /\ returned_text = clean_html_output(response_text)
          /\ output_path # "none" => Len(written) = 1
          /\ output_path = "none" => NothingWritten

C9_Witness ==
    /\ pc = "done"
    /\ raised = "none"
    /\ output_path # "none"
    /\ response_text = FencedParagraph
    /\ written = <<Paragraph>>
    /\ file = Paragraph
    /\ returned_text = Paragraph

\* C10: once the service call has failed, the service is not called again,
\* the destination file is neither written nor changed, and main prints the
\* error alone, without the confirmation or the token usage, and returns
\* normally.
C10_ServiceFailureIsTerminal ==
    raised = "ServiceError" =>
        /\ pc \in {"raised", "done"}
        /\ calls = 1
        /\ NothingWritten
        /\ ~Printed("CONVERSION COMPLETE")
        /\ ~Printed("HTML saved to")
        /\ ~Printed("HTML output saved to")
        /\ ~Printed("Thinking tokens used")
        /\ ~Printed("Total tokens used")
        /\ ~Printed("Token usage information not available")
        /\ (pc = "done" /\ entry = "main") =>
              printed = <<"Error processing PDF">> /\ status = "returned"

C10_Witness ==
    /\ pc = "done"
    /\ entry = "main"
    /\ raised = "ServiceError"
    /\ calls = 1
    /\ printed = <<"Error processing PDF">>
    /\ status = "returned"

====
